---- MODULE Spec2Model ----
(***************************************************************************)
(* Model of the trading ledger of BolsaWeb (src/app.py): the tables user,  *)
(* posiciones and compras, and the request handlers operar_comprar and     *)
(* operar_vender with the repository routines they call; and of its market *)
(* data cache: the snapshot file, the last-refresh file, the global        *)
(* TODOS_LOS_DATOS and cargar_datos_mercado.                               *)
(* The auto-sell triggers of a lot are set and cleared by the handlers     *)
(* operar_guardar_auto and operar_eliminar_auto.  Two further machines     *)
(* follow requests that are handled at the same time, statement by         *)
(* statement: two trade requests, and two reads of the market data.        *)
(*                                                                         *)
(* Money is modelled in whole currency units.  A timestamp is the number   *)
(* of seconds given by ahora_iso() (second resolution, so two requests may *)
(* carry the same timestamp).  SQL NULL / Python None is NULL.             *)
(***************************************************************************)
EXTENDS Integers, Sequences, FiniteSets, TLC

\* ------------------------------------------------------------------ bounds
MaxReloj == 1          \* the clock stops advancing here
MaxCompras == 3        \* a request that would leave more rows in compras is not taken
MaxTiempo == 3         \* time.time() stops advancing here

MaxComprasAuto == 2    \* the same, for the ledger with triggers

SaldoInicial == 35     \* saldo of user 1 in the initial database
SaldoSegundo == 15     \* saldo of every other user in the initial database

\* --------------------------------------------------------------- constants
COMISION_POR_OPERACION == 10

NULL == -1

Usuarios == {1, 2}

\* the "cantidad" field when it is a number (0 is raised to 1 by max(1, ...))
Cantidades == {0, 1, 2}

\* the last Close the provider may answer
Cotizaciones == {5, 6}

\* A request's form and what the provider answers to its price lookup:
\*   ticker    the "ticker" field as typed, before .strip().upper()
\*   entero    whether int() accepts the "cantidad" field, and then n, its value
\*   precio_rt what obtener_precio_tiempo_real answers: None or the last Close
Formulario(ticker, entero, n, precio_rt) ==
    [ticker |-> ticker, entero |-> entero, n |-> n, precio_rt |-> precio_rt]

Formularios ==
    {Formulario(" san", TRUE, n, p) : n \in Cantidades, p \in Cotizaciones}
    \cup {Formulario(" san", FALSE, 0, 5),      \* cantidad is not a number
          Formulario("", TRUE, 1, 5),           \* no ticker
          Formulario(" san", TRUE, 1, NULL)}    \* the price lookup fails

VARIABLES
    saldo,        \* table user: id -> saldo
    posiciones,   \* table posiciones: symbol -> cantidad (one row per symbol)
    compras,      \* table compras: the sequence of rows, row i has "ID" = i
    reloj,        \* the wall clock, in seconds
    last,         \* the request handled by the last step: its inputs, the
                  \* database it found, its connection's view when it closed,
                  \* and its outcome
    eventos,      \* history: the trades committed so far, in the order of
                  \* their commits
    resultados_json,      \* the file RUTA_RESULTADOS: the persisted snapshot
    market_refresh_json,  \* the file RUTA_MARKET_REFRESH: the last-refresh time
    TODOS_LOS_DATOS,      \* the process-wide global: [] or the loaded snapshot
    tiempo,               \* time.time(), in seconds
    ultima,               \* the market-data read made by the last step: what it
                          \* found, what it asked the provider, what it wrote
                          \* and what it returned
    peticion,     \* the form of the last request, as it was typed
    en_vuelo,     \* the trade requests being handled at the same time, each
                  \* with its position in its handler and its local variables
    lectores      \* the requests reading the market data at the same time,
                  \* each with its position in cargar_datos_mercado and its
                  \* local variables

cartera == <<saldo, posiciones, compras, reloj, last, eventos, peticion, en_vuelo>>
mercado == <<resultados_json, market_refresh_json, TODOS_LOS_DATOS, tiempo, ultima,
             lectores>>
vars == <<cartera, mercado>>

Max(a, b) == IF a >= b THEN a ELSE b

\* ---------------------------------------------------------------- database
\* the committed content of the database file
BD == [saldo |-> saldo, posiciones |-> posiciones, compras |-> compras]

\* repo.conectar(): a connection starts from the committed content
conectar(bd) == bd

db_get_saldo(conn, usuario_id) ==
    IF usuario_id \in DOMAIN conn.saldo THEN conn.saldo[usuario_id] ELSE 0

db_set_saldo(conn, usuario_id, nuevo_saldo) ==
    IF usuario_id \in DOMAIN conn.saldo
    THEN [conn EXCEPT !.saldo[usuario_id] = nuevo_saldo]
    ELSE conn

db_get_posiciones(conn) == conn.posiciones

\* the position taken as 0 without looking it up
portfolio_sin_leer(portfolio, ticker) == 0

\* portfolio.get(ticker, 0)
portfolio_get(portfolio, ticker) ==
    IF ticker \in DOMAIN portfolio THEN portfolio[ticker] ELSE 0

\* INSERT ... ON CONFLICT(symbol) DO UPDATE
db_set_posicion(conn, ticker, cantidad) ==
    [conn EXCEPT !.posiciones =
        [s \in (DOMAIN conn.posiciones) \cup {ticker} |->
            IF s = ticker THEN cantidad ELSE conn.posiciones[s]]]

db_insert_compra(conn, usuario_id, ticker, cantidad, precio, ahora) ==
    [conn EXCEPT !.compras = Append(@,
        [ID |-> Len(conn.compras) + 1,
         usuario |-> usuario_id,
         ticker |-> ticker,
         cantidad |-> cantidad,
         precio_compra |-> precio,
         fecha_compra |-> ahora,
         precio_venta |-> NULL,
         fecha_venta |-> NULL,
         auto_sup |-> NULL,
         auto_inf |-> NULL])]

\* ------------------------------------------------------ db_cerrar_compras
\* the directions exchanged: LIFO matched oldest first
OrdenSQLInvertido(metodo) == IF metodo = "LIFO" THEN "ASC" ELSE "DESC"

\* order = "DESC" if metodo.upper() == "LIFO" else "ASC"
OrdenSQL(metodo) == IF metodo = "LIFO" THEN "DESC" ELSE "ASC"

\* WHERE usuario = ? AND ticker = ?, open or closed
DelUsuarioYTicker(cs, usuario_id, ticker) ==
    {i \in 1..Len(cs) : /\ cs[i].usuario = usuario_id
                        /\ cs[i].ticker = ticker}

\* WHERE usuario = ? AND ticker = ? AND "fecha venta" IS NULL
Abiertas(cs, usuario_id, ticker) ==
    {i \in 1..Len(cs) : /\ cs[i].usuario = usuario_id
                        /\ cs[i].ticker = ticker
                        /\ cs[i].fecha_venta = NULL}

\* row i comes before row j under ORDER BY "fecha compra" order, "ID" order
Precede(cs, i, j, order) ==
    IF order = "DESC"
    THEN \/ cs[i].fecha_compra > cs[j].fecha_compra
         \/ cs[i].fecha_compra = cs[j].fecha_compra /\ cs[i].ID > cs[j].ID
    ELSE \/ cs[i].fecha_compra < cs[j].fecha_compra
         \/ cs[i].fecha_compra = cs[j].fecha_compra /\ cs[i].ID < cs[j].ID

\* the rows of S as the SELECT returns them: a sequence of row numbers
RECURSIVE Ordenar(_, _, _)
Ordenar(cs, S, order) ==
    IF S = {} THEN <<>>
    ELSE LET primero == CHOOSE i \in S : \A j \in S \ {i} : Precede(cs, i, j, order)
         IN  <<primero>> \o Ordenar(cs, S \ {primero}, order)

\* the closing UPDATE without its two trigger columns
FilaCerradaConUmbrales(fila, precio_venta, fecha_venta) ==
    [fila EXCEPT !.precio_venta = precio_venta,
                 !.fecha_venta = fecha_venta]

\* the closing UPDATE without its "fecha venta" = ? assignment
FilaCerradaSinFecha(fila, precio_venta, fecha_venta) ==
    [fila EXCEPT !.precio_venta = precio_venta,
                 !.auto_sup = NULL,
                 !.auto_inf = NULL]

\* UPDATE compras SET "precio venta", "fecha venta", triggers = NULL WHERE "ID" = id_
FilaCerrada(fila, precio_venta, fecha_venta) ==
    [fila EXCEPT !.precio_venta = precio_venta,
                 !.fecha_venta = fecha_venta,
                 !.auto_sup = NULL,
                 !.auto_inf = NULL]

\* the inserted row given the whole lot's quantity instead of the sold part
FilaVendidaEntera(cs, fila, usuario_id, ticker, vendidas, precio_venta, fecha_venta) ==
    [ID |-> Len(cs) + 1,
     usuario |-> usuario_id,
     ticker |-> ticker,
     cantidad |-> fila.cantidad,
     precio_compra |-> fila.precio_compra,
     fecha_compra |-> fila.fecha_compra,
     precio_venta |-> precio_venta,
     fecha_venta |-> fecha_venta,
     auto_sup |-> NULL,
     auto_inf |-> NULL]

\* the row the split inserts for the sold part of row fila
FilaVendida(cs, fila, usuario_id, ticker, vendidas, precio_venta, fecha_venta) ==
    [ID |-> Len(cs) + 1,
     usuario |-> usuario_id,
     ticker |-> ticker,
     cantidad |-> vendidas,
     precio_compra |-> fila.precio_compra,
     fecha_compra |-> fila.fecha_compra,
     precio_venta |-> precio_venta,
     fecha_venta |-> fecha_venta,
     auto_sup |-> NULL,
     auto_inf |-> NULL]

\* the loop "for row in abiertas", from position k with restante left to sell;
\* row holds the values the SELECT fetched (filas), the writes go to cs
RECURSIVE BucleCerrar(_, _, _, _, _, _, _, _, _)
BucleCerrar(cs, filas, abiertas, k, restante, usuario_id, ticker, precio_venta, fecha_venta) ==
    IF k > Len(abiertas) \/ restante <= 0
    THEN [compras |-> cs, restante |-> restante]
    ELSE LET id_ == abiertas[k]
             qty == filas[id_].cantidad
         IN  IF qty <= restante
             THEN BucleCerrar(
                    [cs EXCEPT ![id_] = FilaCerrada(@, precio_venta, fecha_venta)],
                    filas, abiertas, k + 1, restante - qty,
                    usuario_id, ticker, precio_venta, fecha_venta)
             ELSE LET vendidas == restante
                      quedan == qty - vendidas
                  IN  BucleCerrar(
                        Append([cs EXCEPT ![id_].cantidad = quedan],
                               FilaVendida(cs, filas[id_], usuario_id, ticker,
                                           vendidas, precio_venta, fecha_venta)),
                        filas, abiertas, k + 1, 0,
                        usuario_id, ticker, precio_venta, fecha_venta)

\* the routine: the connection's view when it returns or raises, and whether
\* it raised ValueError("No hay suficientes compras abiertas ...")
db_cerrar_compras(conn, usuario_id, ticker, cantidad_vender, precio_venta, metodo, ahora) ==
    IF cantidad_vender <= 0
    THEN [conn |-> conn, raised |-> FALSE]
    ELSE LET fecha_venta == ahora
             abiertas == Ordenar(conn.compras,
                                 Abiertas(conn.compras, usuario_id, ticker),
                                 OrdenSQL(metodo))
             fin == BucleCerrar(conn.compras, conn.compras, abiertas, 1,
                                cantidad_vender, usuario_id, ticker,
                                precio_venta, fecha_venta)
         IN  [conn |-> [conn EXCEPT !.compras = fin.compras],
              raised |-> fin.restante > 0]

\* ------------------------------------------------ db_coste_medio_posicion
\* avg_cost is kept as an exact fraction num / den (den > 0); the rounding of
\* the float arithmetic is not modelled
Fraccion(num, den) == [num |-> num, den |-> den]
FraccionCero == Fraccion(0, 1)
FraccionIgual(a, b) == a.num * b.den = b.num * a.den

\* WHERE usuario = ? AND ticker = ?, in the order of the table
FilasDe(cs, usuario_id, ticker) ==
    SelectSeq(cs, LAMBDA fila : fila.usuario = usuario_id /\ fila.ticker = ticker)

\* how the loop "for r in rows" reads a row: a BUY when it has a buy price
\* and a buy date, else a SELL when it has a sell price and a sell date,
\* else nothing
TipoMovimiento(fila) ==
    IF fila.precio_compra # NULL /\ fila.fecha_compra # NULL THEN "BUY"
    ELSE IF fila.precio_venta # NULL /\ fila.fecha_venta # NULL THEN "SELL"
    ELSE "NINGUNO"

Movimiento(fila) ==
    IF TipoMovimiento(fila) = "BUY"
    THEN [tipo |-> "BUY", fecha |-> fila.fecha_compra,
          qty |-> fila.cantidad, price |-> fila.precio_compra]
    ELSE [tipo |-> "SELL", fecha |-> fila.fecha_venta,
          qty |-> fila.cantidad, price |-> fila.precio_venta]

RECURSIVE Movimientos(_)
Movimientos(rows) ==
    IF rows = <<>> THEN <<>>
    ELSE (IF TipoMovimiento(Head(rows)) = "NINGUNO" THEN <<>>
          ELSE <<Movimiento(Head(rows))>>) \o Movimientos(Tail(rows))

\* movimientos.sort(key=lambda x: x[1]): by date, equal dates keep their order
RECURSIVE OrdenarPorFecha(_)
OrdenarPorFecha(ms) ==
    IF ms = <<>> THEN <<>>
    ELSE LET k == CHOOSE i \in 1..Len(ms) :
                      /\ \A j \in 1..Len(ms) : ms[i].fecha <= ms[j].fecha
                      /\ \A j \in 1..(i - 1) : ms[j].fecha # ms[i].fecha
             resto == [j \in 1..(Len(ms) - 1) |-> IF j < k THEN ms[j] ELSE ms[j + 1]]
         IN  <<ms[k]>> \o OrdenarPorFecha(resto)

\* the loop "for tipo, _, qty, price in movimientos", from position k
RECURSIVE BucleCoste(_, _, _, _)
BucleCoste(ms, k, shares, avg_cost) ==
    IF k > Len(ms) THEN avg_cost
    ELSE LET qty == ms[k].qty
             price == ms[k].price
         IN  IF ms[k].tipo = "BUY"
             THEN LET \* total_cost = avg_cost * shares + price * qty + COMISION
                      total_num == avg_cost.num * shares
                                   + (price * qty + COMISION_POR_OPERACION) * avg_cost.den
                      shares2 == shares + qty
                  IN  BucleCoste(ms, k + 1, shares2,
                                 IF shares2 > 0
                                 THEN Fraccion(total_num, avg_cost.den * shares2)
                                 ELSE FraccionCero)
             ELSE LET shares2 == shares - qty
                  IN  IF shares2 <= 0
                      THEN BucleCoste(ms, k + 1, 0, FraccionCero)
                      ELSE BucleCoste(ms, k + 1, shares2, avg_cost)

db_coste_medio_posicion(conn, usuario_id, ticker) ==
    LET rows == FilasDe(conn.compras, usuario_id, ticker)
        movimientos == OrdenarPorFecha(Movimientos(rows))
    IN  BucleCoste(movimientos, 1, 0, FraccionCero)

\* ------------------------------------------------------------ market data
\* ["D", "1d", "1m"], ["2M", "2mo", "5m"], ["2A", "2y", "1h"], ["MAX", "max", "1d"]
INTERVALO_PERIODO ==
    << <<"D", "1d", "1m">>, <<"2M", "2mo", "5m">>,
       <<"2A", "2y", "1h">>, <<"MAX", "max", "1d">> >>

Claves == {INTERVALO_PERIODO[k][1] : k \in 1..Len(INTERVALO_PERIODO)}

\* a Python dict is a function; {} is the function of empty domain
DictVacio == <<>>
dict_vacio(d) == DOMAIN d = {}
dict_set(d, clave, valor) ==
    [x \in (DOMAIN d) \cup {clave} |-> IF x = clave THEN valor ELSE d[x]]

\* a file: whether it exists and the JSON document it holds
SinArchivo == [existe |-> FALSE, datos |-> DictVacio]
existe_archivo(archivo) == archivo.existe
leer_json(archivo) == IF ~existe_archivo(archivo) THEN DictVacio ELSE archivo.datos
guardar_json(data) == [existe |-> TRUE, datos |-> data]

\* TODOS_LOS_DATOS is the list [] until a load replaces it by a dict
ListaVacia == [lista |-> TRUE, datos |-> DictVacio]
Dict(d) == [lista |-> FALSE, datos |-> d]

\* the bars t.history() answers for (tick, clave) at time now, as a DataFrame
\* indexed by Datetime
Historia(tick, clave, now) ==
    [indice |-> "Datetime", barras |-> <<tick, clave, now>>]

\* df.reset_index().to_dict(orient="records"): the list of bars, one dict each
to_dict_records(df) == [registros |-> df.barras]

\* pd.DataFrame(registros) ... set_index("Datetime")
DataFrame(registros) == [indice |-> "Datetime", barras |-> registros.registros]

\* item.strip() on the ticker names of the table
strip(texto) ==
    CASE texto = " bbva" -> "bbva"
      [] OTHER -> texto

\* _extraer_tickers: the stripped names, without the empty ones, each once,
\* in order of first appearance
RECURSIVE extraer_tickers(_)
extraer_tickers(tickers_db) ==
    IF tickers_db = <<>> THEN <<>>
    ELSE LET antes == extraer_tickers(SubSeq(tickers_db, 1, Len(tickers_db) - 1))
             t == strip(tickers_db[Len(tickers_db)][2])
         IN  IF t = "" \/ (\E k \in 1..Len(antes) : antes[k] = t)
             THEN antes
             ELSE Append(antes, t)

\* an exception of one fetch aborting the download
except_raise(estado) == [estado EXCEPT !.excepcion = TRUE]

\* except Exception: continue
except_continue(estado) == estado

\* the body of "for periodo in INTERVALO_PERIODO" for one pair; resp is what
\* the provider does on each pair: "error" (raises), "vacio" (no rows), "datos"
Descargar_par(estado, tick, periodo, resp, now) ==
    LET clave_periodo == periodo[1]
        llamado == [estado EXCEPT !.llamadas = @ \cup {<<tick, clave_periodo>>}]
        r == resp[<<tick, clave_periodo>>]
    IN  IF r = "error" THEN except_continue(llamado)
        ELSE IF r = "vacio" THEN llamado
        ELSE [llamado EXCEPT !.resultados[tick] =
                 dict_set(@, clave_periodo, Historia(tick, clave_periodo, now))]

RECURSIVE Bucle_periodos(_, _, _, _, _)
Bucle_periodos(estado, tick, k, resp, now) ==
    IF k > Len(INTERVALO_PERIODO) \/ estado.excepcion THEN estado
    ELSE Bucle_periodos(Descargar_par(estado, tick, INTERVALO_PERIODO[k], resp, now),
                        tick, k + 1, resp, now)

RECURSIVE Bucle_tickers(_, _, _, _, _)
Bucle_tickers(estado, tickers, i, resp, now) ==
    IF i > Len(tickers) \/ estado.excepcion THEN estado
    ELSE LET tick == tickers[i]
             vacio == [estado EXCEPT !.resultados = dict_set(@, tick, DictVacio)]
         IN  Bucle_tickers(Bucle_periodos(vacio, tick, 1, resp, now),
                           tickers, i + 1, resp, now)

\* descargar_datos_tickers: the dict it returns, the pairs it asked the
\* provider for, and whether an exception left it
descargar_datos_tickers(tickers_db, resp, now) ==
    Bucle_tickers([resultados |-> DictVacio, llamadas |-> {}, excepcion |-> FALSE],
                  extraer_tickers(tickers_db), 1, resp, now)

\* guardar_datos_en_disco: the file it writes; tickers without data are skipped
guardar_datos_en_disco(resultados) ==
    guardar_json([t \in {x \in DOMAIN resultados : ~dict_vacio(resultados[x])} |->
                     [c \in DOMAIN resultados[t] |-> to_dict_records(resultados[t][c])]])

\* the dict cargar_datos_desde_disco builds from the JSON document
Deserializar(data) ==
    [t \in DOMAIN data |-> [c \in DOMAIN data[t] |-> DataFrame(data[t][c])]]

\* cargar_datos_desde_disco: the global after the call; the call returns it
cargar_datos_desde_disco(global, archivo) ==
    IF global = ListaVacia
    THEN Dict(Deserializar(leer_json(archivo)))
    ELSE global

\* MARKET_REFRESH_TTL_SECONDS = int(os.environ.get("MARKET_TTL_SECONDS", "900")),
\* here with MARKET_TTL_SECONDS set to 1
MARKET_REFRESH_TTL_SECONDS == 1

\* float(data.get("ts", 0.0)) or None
leer_market_refresh_ts(archivo_ts) ==
    LET data == leer_json(archivo_ts)
        ts == IF "ts" \in DOMAIN data THEN data["ts"] ELSE 0
    IN  IF ts = 0 THEN NULL ELSE ts

guardar_market_refresh_ts(ts) == guardar_json([x \in {"ts"} |-> ts])

ha_expirado_market_cache(ttl_seconds, archivo_ts, now) ==
    LET ts == leer_market_refresh_ts(archivo_ts)
    IN  IF ts = NULL THEN TRUE ELSE (now - ts) > ttl_seconds

\* SELECT empresa, ticker FROM tickers where ticker='san'
leer_tickers(tabla) == SelectSeq(tabla, LAMBDA fila : fila[2] = "san")

\* the (ticker, period) pairs that hold data in a download's result
Poblados(resultados) ==
    {<<t, c>> : t \in DOMAIN resultados, c \in Claves} \ 
    {<<t, c>> \in (DOMAIN resultados) \X Claves : c \notin DOMAIN resultados[t]}

\* what a read leaves behind: the two files, the global, the dict it returns,
\* whether it went on to refresh, the pairs it asked the provider for, the
\* pairs that gave data, and the files it wrote, in the order of the writes
Lectura(archivo, archivo_ts, global, devuelto, refresco, llamadas, poblados, escrituras) ==
    [archivo |-> archivo, archivo_ts |-> archivo_ts, global |-> global,
     devuelto |-> devuelto, refresco |-> refresco, llamadas |-> llamadas,
     poblados |-> poblados, escrituras |-> escrituras]

cargar_datos_mercado(tabla, archivo, archivo_ts, global, resp, now) ==
    LET tickers_db == leer_tickers(tabla)
        fresca == /\ existe_archivo(archivo)
                  /\ ~ha_expirado_market_cache(MARKET_REFRESH_TTL_SECONDS, archivo_ts, now)
        \* 1) datos = mercado.cargar_datos_desde_disco()
        g1 == IF fresca THEN cargar_datos_desde_disco(global, archivo) ELSE global
    IN  IF fresca /\ ~dict_vacio(g1.datos)
        THEN Lectura(archivo, archivo_ts, g1, g1.datos, FALSE, {}, {}, <<>>)
        ELSE
        LET \* 2) fallback = mercado.cargar_datos_desde_disco() or {}
            g2 == IF existe_archivo(archivo)
                  THEN cargar_datos_desde_disco(g1, archivo) ELSE g1
            fallback == IF existe_archivo(archivo) THEN g2.datos ELSE DictVacio
            \* 3) datos_nuevos = mercado.descargar_datos_tickers(tickers_db)
            d == descargar_datos_tickers(tickers_db, resp, now)
            datos_nuevos == d.resultados
        IN  IF ~d.excepcion /\ ~dict_vacio(datos_nuevos)
            THEN Lectura(guardar_datos_en_disco(datos_nuevos),
                         guardar_market_refresh_ts(now),
                         g2, datos_nuevos, TRUE, d.llamadas, Poblados(datos_nuevos),
                         <<"resultados", "market_refresh">>)
            \* 4), 5) return fallback, or {}
            ELSE Lectura(archivo, archivo_ts, g2, fallback, TRUE, d.llamadas,
                         Poblados(datos_nuevos), <<>>)

\* ------------------------------------------------------- request handlers
\* (request.form.get("ticker") or "").strip().upper()
strip_upper(texto) ==
    CASE texto = " san" -> "SAN"
      [] OTHER -> texto

\* the last Close of the bars of a DataFrame
UltimoCierre(df) == 4 + df.barras[3]

\* the price taken from the in-memory snapshot when the lookup fails
obtener_precio_con_cache(ticker, precio_rt) ==
    IF ticker = "" THEN NULL
    ELSE IF precio_rt # NULL THEN precio_rt
    ELSE LET datos == TODOS_LOS_DATOS.datos
         IN  IF "san" \in DOMAIN datos /\ "D" \in DOMAIN datos["san"]
             THEN UltimoCierre(datos["san"]["D"])
             ELSE NULL

\* _obtener_precio_operacion: None for an empty ticker, else what
\* obtener_precio_tiempo_real answers (precio_rt, None when the lookup fails)
obtener_precio_operacion(ticker, precio_rt) ==
    IF ticker = "" THEN NULL ELSE precio_rt

\* the cost without the commission
CosteSinComision(precio, cantidad) == precio * cantidad

\* coste = precio * cantidad + COMISION_POR_OPERACION
Coste(precio, cantidad) == precio * cantidad + COMISION_POR_OPERACION

\* the credit without the commission taken off
IngresoBruto(precio, cantidad) == precio * cantidad

\* ingreso = precio * cantidad - COMISION_POR_OPERACION
Ingreso(precio, cantidad) == precio * cantidad - COMISION_POR_OPERACION

\* the funds check made against the price of the shares alone
SaldoInsuficienteSinComision(cash, coste) == cash < coste - COMISION_POR_OPERACION

\* if cash < coste
SaldoInsuficienteNunca(cash, coste) == FALSE

SaldoInsuficiente(cash, coste) == cash < coste

\* if acciones_actuales < cantidad
AccionesInsuficientes(acciones_actuales, cantidad) == acciones_actuales < cantidad

\* the credit check made before the commission is taken off
IngresoNegativoBruto(ingreso) == ingreso + COMISION_POR_OPERACION < 0

\* if ingreso < 0
IngresoNegativo(ingreso) == ingreso < 0

\* what a handler leaves behind: its outcome, the ticker it parsed, the
\* quantity and price of the trade it went on to attempt (0 and NULL when it
\* stopped at validation), its connection's view when the finally clause
\* closes it, and whether conn.commit() ran
Respuesta(res, ticker, cantidad, precio, trabajo, commit) ==
    [res |-> res, ticker |-> ticker, cantidad |-> cantidad, precio |-> precio,
     trabajo |-> trabajo, commit |-> commit]

\* a connection in autocommit mode: every write is kept
conn_close_autocommit(bd, trabajo, commit) == trabajo

\* conn.close(): the database keeps the connection's writes only if they
\* were committed; a pending transaction is rolled back
conn_close(bd, trabajo, commit) == IF commit THEN trabajo ELSE bd

operar_comprar(bd, uid, form, ahora) ==
    LET ticker == strip_upper(form.ticker)
    IN  IF ~form.entero
        THEN Respuesta("cantidad_invalida", "", 0, NULL, bd, FALSE)
        ELSE
        LET cantidad == Max(1, form.n)
            precio == obtener_precio_operacion(ticker, form.precio_rt)
        IN  IF precio = NULL
            THEN Respuesta("sin_precio", ticker, 0, NULL, bd, FALSE)
            ELSE
            LET conn == conectar(bd)
                cash == db_get_saldo(conn, uid)
                coste == Coste(precio, cantidad)
            IN  IF SaldoInsuficiente(cash, coste)
                THEN Respuesta("saldo_insuficiente", ticker, cantidad, precio, conn, FALSE)
                ELSE
                LET portfolio == db_get_posiciones(conn)
                    acciones_actuales == portfolio_get(portfolio, ticker)
                    acciones_nuevas == acciones_actuales + cantidad
                    c1 == db_set_saldo(conn, uid, cash - coste)
                    c2 == db_set_posicion(c1, ticker, acciones_nuevas)
                    c3 == db_insert_compra(c2, uid, ticker, cantidad, precio, ahora)
                IN  Respuesta("ok", ticker, cantidad, precio, c3, TRUE)

\* operar_vender, with the method db_cerrar_compras is called with
vender_con_metodo(bd, uid, form, ahora, metodo) ==
    LET ticker == strip_upper(form.ticker)
    IN  IF ~form.entero
        THEN Respuesta("cantidad_invalida", "", 0, NULL, bd, FALSE)
        ELSE
        LET cantidad == Max(1, form.n)
            precio == obtener_precio_operacion(ticker, form.precio_rt)
        IN  IF precio = NULL
            THEN Respuesta("sin_precio", ticker, 0, NULL, bd, FALSE)
            ELSE
            LET conn == conectar(bd)
                portfolio == db_get_posiciones(conn)
                acciones_actuales == portfolio_get(portfolio, ticker)
            IN  IF AccionesInsuficientes(acciones_actuales, cantidad)
                THEN Respuesta("acciones_insuficientes", ticker, cantidad, precio, conn, FALSE)
                ELSE
                LET cash == db_get_saldo(conn, uid)
                    ingreso == Ingreso(precio, cantidad)
                IN  IF IngresoNegativo(ingreso)
                    THEN Respuesta("ingreso_negativo", ticker, cantidad, precio, conn, FALSE)
                    ELSE
                    LET acciones_nuevas == acciones_actuales - cantidad
                        c1 == db_set_saldo(conn, uid, cash + ingreso)
                        c2 == db_set_posicion(c1, ticker, acciones_nuevas)
                        c3 == db_cerrar_compras(c2, uid, ticker, cantidad, precio, metodo, ahora)
                    IN  IF c3.raised
                        THEN Respuesta("ValueError", ticker, cantidad, precio, c3.conn, FALSE)
                        ELSE Respuesta("ok", ticker, cantidad, precio, c3.conn, TRUE)

\* metodo: str = "LIFO"
METODO_POR_DEFECTO == "LIFO"

operar_vender(bd, uid, form, ahora) ==
    vender_con_metodo(bd, uid, form, ahora, METODO_POR_DEFECTO)

\* ---------------------------------------------------- auto-sell triggers
\* The queries of the triggers say ORDER BY "fecha compra" DESC LIMIT 1 and
\* name no second key: among the rows of the latest "fecha compra" SQLite
\* returns the first its plan meets, the lowest rowid when it scans the table
\* and sorts, the highest when it walks an index backwards.
PlanesSQL == {"ASC", "DESC"}

\* SELECT rowid FROM compras WHERE usuario = ? AND ticker = ?
\* AND "fecha venta" IS NULL ORDER BY "fecha compra" DESC LIMIT 1:
\* the number of the row, 0 when there is none
CompraActiva(cs, usuario_id, ticker, plan) ==
    LET S == Abiertas(cs, usuario_id, ticker)
    IN  IF S = {} THEN 0
        ELSE CHOOSE i \in S : \A j \in S \ {i} :
                \/ cs[i].fecha_compra > cs[j].fecha_compra
                \/ /\ cs[i].fecha_compra = cs[j].fecha_compra
                   /\ IF plan = "ASC" THEN i < j ELSE i > j

db_get_auto_venta_compra_activa(conn, usuario_id, ticker, plan) ==
    LET row == CompraActiva(conn.compras, usuario_id, ticker, plan)
    IN  IF row = 0 THEN <<NULL, NULL>>
        ELSE <<conn.compras[row].auto_sup, conn.compras[row].auto_inf>>

db_set_auto_venta_compra_activa(conn, usuario_id, ticker, sup, inf, plan) ==
    LET row == CompraActiva(conn.compras, usuario_id, ticker, plan)
    IN  IF row = 0 THEN conn
        ELSE [conn EXCEPT !.compras[row].auto_sup = sup,
                          !.compras[row].auto_inf = inf]

db_clear_auto_venta_compra_activa(conn, usuario_id, ticker, plan) ==
    db_set_auto_venta_compra_activa(conn, usuario_id, ticker, NULL, NULL, plan)

\* the fields "tp" and "sl" as typed, cleaned:
\* (s or "").strip().replace(",", ".")
limpiar_texto(s) ==
    CASE s = " 7 " -> "7"
      [] s = "4,0" -> "4.0"
      [] OTHER -> s

\* float(s), NULL when it raises
float_o_none(s) ==
    CASE s = "7" -> 7
      [] s = "4.0" -> 4
      [] OTHER -> NULL

normalizar_float_texto(s) ==
    LET t == limpiar_texto(s)
    IN  IF t = "" THEN NULL ELSE float_o_none(t)

\* the form of /operar/guardar_auto and of /operar/eliminar_auto (which reads
\* only the ticker)
FormularioAuto(ticker, tp, sl) == [ticker |-> ticker, tp |-> tp, sl |-> sl]

\* what a trigger handler leaves behind
RespuestaAuto(ticker, tp, sl, trabajo, commit) ==
    [res |-> "ok", ticker |-> ticker, tp |-> tp, sl |-> sl,
     trabajo |-> trabajo, commit |-> commit]

operar_guardar_auto(bd, uid, form, plan) ==
    LET ticker == strip_upper(form.ticker)
        tp == normalizar_float_texto(form.tp)
        sl == normalizar_float_texto(form.sl)
        conn == conectar(bd)
        c1 == db_set_auto_venta_compra_activa(conn, uid, ticker, tp, sl, plan)
    IN  RespuestaAuto(ticker, tp, sl, c1, TRUE)

operar_eliminar_auto(bd, uid, form, plan) ==
    LET ticker == strip_upper(form.ticker)
        conn == conectar(bd)
        c1 == db_clear_auto_venta_compra_activa(conn, uid, ticker, plan)
    IN  RespuestaAuto(ticker, NULL, NULL, c1, TRUE)

\* ----------------------------------------------------------- the machine
\* the trade a committed request has made
Evento(op, uid, r) ==
    [tipo |-> IF op = "comprar" THEN "BUY" ELSE "SELL",
     usuario |-> uid, ticker |-> r.ticker, qty |-> r.cantidad, price |-> r.precio]

\* one request, from arrival to the closing of its connection; ahora_iso()
\* reads the clock
Atender(op, uid, metodo, form, r) ==
    LET bd == conn_close(BD, r.trabajo, r.commit)
    IN  /\ Len(r.trabajo.compras) <= MaxCompras
        /\ eventos' = IF r.commit THEN Append(eventos, Evento(op, uid, r)) ELSE eventos
        /\ UNCHANGED mercado
        /\ saldo' = bd.saldo
        /\ posiciones' = bd.posiciones
        /\ compras' = bd.compras
        /\ reloj' = reloj
        /\ en_vuelo' = en_vuelo
        /\ last' = [op |-> op, usuario |-> uid, ticker |-> r.ticker,
                    cantidad |-> r.cantidad, precio |-> r.precio,
                    metodo |-> metodo, res |-> r.res,
                    precio_rt |-> form.precio_rt,
                    antes |-> BD, trabajo |-> r.trabajo]

OperarComprar(uid, form) ==
    /\ Atender("comprar", uid, "", form, operar_comprar(BD, uid, form, reloj))
    /\ UNCHANGED peticion

OperarVender(uid, form) ==
    /\ Atender("vender", uid, METODO_POR_DEFECTO, form,
               operar_vender(BD, uid, form, reloj))
    /\ UNCHANGED peticion

\* a sale whose lots are matched with the given method
VenderConMetodo(uid, form, metodo) ==
    /\ Atender("vender", uid, metodo, form,
               vender_con_metodo(BD, uid, form, reloj, metodo))
    /\ UNCHANGED peticion

\* a second passes
Tic ==
    /\ reloj < MaxReloj
    /\ reloj' = reloj + 1
    /\ UNCHANGED <<saldo, posiciones, compras, last, eventos, peticion, en_vuelo>>
    /\ UNCHANGED mercado

\* a request that is not being handled.  pc is the position of a request in
\* its handler; form is its form, ticker, cantidad and precio are what it
\* parsed and looked up; cash and acciones_actuales what it has read from the
\* database
PeticionOciosa ==
    [pc |-> "ocioso", op |-> "", usuario |-> 0,
     form |-> Formulario("", FALSE, 0, NULL), ticker |-> "", cantidad |-> 0,
     precio |-> NULL, cash |-> NULL, acciones_actuales |-> NULL, res |-> ""]

\* the threads of the server that handle requests at the same time
Hilos == {1, 2}

\* a thread that is not reading the market data.  pc is its position in
\* cargar_datos_mercado and cargar_datos_desde_disco, paso the step (1 or 2)
\* of cargar_datos_mercado that called the load, data what its leer_json
\* returned, nuevos what its download returned; asignado is history: the
\* value the thread has stored in TODOS_LOS_DATOS, if it has stored one
LectorOcioso ==
    [pc |-> "ocioso", paso |-> 0, data |-> DictVacio, nuevos |-> DictVacio,
     asignado |-> ListaVacia]

\* no form has been sent
SinPeticion == [ruta |-> "ninguna"]

\* no read has been made
UltimaInicial ==
    [op |-> "ninguna", now |-> 0, antes |-> SinArchivo, ts_antes |-> SinArchivo,
     global_antes |-> ListaVacia, tickers |-> <<>>, resp |-> DictVacio,
     devuelto |-> DictVacio, refresco |-> FALSE, llamadas |-> {},
     poblados |-> {}, escrituras |-> <<>>, excepcion |-> FALSE]

BDInicial ==
    [saldo |-> [u \in Usuarios |-> IF u = 1 THEN SaldoInicial ELSE SaldoSegundo],
     posiciones |-> [s \in {} |-> 0],
     compras |-> <<>>]

\* no pair of requests is being handled; antes is the database the pair found
ParOcioso == [antes |-> BDInicial, p |-> [k \in Hilos |-> PeticionOciosa]]

Init ==
    /\ saldo = BDInicial.saldo
    /\ posiciones = BDInicial.posiciones
    /\ compras = BDInicial.compras
    /\ reloj = 0
    /\ last = [op |-> "ninguna", usuario |-> 0, ticker |-> "", cantidad |-> 0,
               precio |-> NULL, metodo |-> "", res |-> "", precio_rt |-> NULL,
               antes |-> BDInicial, trabajo |-> BDInicial]
    /\ eventos = <<>>
    /\ resultados_json = SinArchivo
    /\ market_refresh_json = SinArchivo
    /\ TODOS_LOS_DATOS = ListaVacia
    /\ tiempo = 1
    /\ ultima = UltimaInicial
    /\ peticion = SinPeticion
    /\ en_vuelo = ParOcioso
    /\ lectores = [h \in Hilos |-> LectorOcioso]

Next ==
    \/ \E uid \in Usuarios, form \in Formularios : OperarComprar(uid, form)
    \/ \E uid \in Usuarios, form \in Formularios : OperarVender(uid, form)
    \/ Tic

Spec == Init /\ [][Next]_vars

\* the same ledger under well-formed requests, with sales matched by either
\* method of db_cerrar_compras
FormulariosValidos ==
    {f \in Formularios : f.entero /\ f.n >= 1 /\ f.ticker # "" /\ f.precio_rt # NULL}

NextMetodo ==
    \/ \E uid \in Usuarios, form \in FormulariosValidos : OperarComprar(uid, form)
    \/ \E uid \in Usuarios, form \in FormulariosValidos, metodo \in {"LIFO", "FIFO"} :
          VenderConMetodo(uid, form, metodo)
    \/ Tic

SpecMetodo == Init /\ [][NextMetodo]_vars

\* the ledger under well-formed requests, with a second ticker to buy
FormulariosTickers == FormulariosValidos \cup {Formulario("BBVA", TRUE, 1, 5)}

NextTickers ==
    \/ \E uid \in Usuarios, form \in FormulariosTickers : OperarComprar(uid, form)
    \/ \E uid \in Usuarios, form \in FormulariosTickers : OperarVender(uid, form)
    \/ Tic

SpecTickers == Init /\ [][NextTickers]_vars

\* --------------------------------------------------- the market machine
\* the rows the table tickers may hold
TablasTickers ==
    { << <<"Banco Santander", "san">>, <<"BBVA", "bbva">> >>,
      << <<"BBVA", "bbva">> >> }

\* what the provider may do on the pairs of the tickers ticks: the pairs of
\* S give data, the others all raise or all come back without rows
Respuestas(ticks) ==
    {[par \in ticks \X Claves |-> IF par \in S THEN "datos" ELSE m] :
        S \in SUBSET (ticks \X Claves), m \in {"error", "vacio"}}

\* a page that reads the market data: cargar_datos_mercado(conn)
LeerMercado(tabla, resp) ==
    LET r == cargar_datos_mercado(tabla, resultados_json, market_refresh_json,
                                  TODOS_LOS_DATOS, resp, tiempo)
    IN  /\ resultados_json' = r.archivo
        /\ market_refresh_json' = r.archivo_ts
        /\ TODOS_LOS_DATOS' = r.global
        /\ tiempo' = tiempo
        /\ ultima' = [op |-> "leer", now |-> tiempo, antes |-> resultados_json,
                      ts_antes |-> market_refresh_json,
                      global_antes |-> TODOS_LOS_DATOS,
                      tickers |-> <<>>, resp |-> DictVacio,
                      devuelto |-> r.devuelto, refresco |-> r.refresco,
                      llamadas |-> r.llamadas, poblados |-> r.poblados,
                      escrituras |-> r.escrituras, excepcion |-> FALSE]
        /\ UNCHANGED lectores
        /\ UNCHANGED cartera

\* a second passes
TicTiempo ==
    /\ tiempo < MaxTiempo
    /\ tiempo' = tiempo + 1
    /\ UNCHANGED <<resultados_json, market_refresh_json, TODOS_LOS_DATOS, ultima,
                   lectores>>
    /\ UNCHANGED cartera

\* the process is restarted: the module is loaded again, the files stay
Reiniciar ==
    /\ TODOS_LOS_DATOS' = ListaVacia
    /\ ultima' = [UltimaInicial EXCEPT !.op = "reiniciar"]
    /\ UNCHANGED <<resultados_json, market_refresh_json, tiempo, lectores>>
    /\ UNCHANGED cartera

NextMercado ==
    \/ \E tabla \in TablasTickers, resp \in Respuestas({"san"}) : LeerMercado(tabla, resp)
    \/ TicTiempo
    \/ Reiniciar

SpecMercado == Init /\ [][NextMercado]_vars

\* the same reads with a provider that gives data for at least one pair of
\* every refresh
RespuestasConDatos(ticks) ==
    {resp \in Respuestas(ticks) : \E par \in DOMAIN resp : resp[par] = "datos"}

NextMercadoConDatos ==
    \/ \E tabla \in TablasTickers, resp \in RespuestasConDatos({"san"}) :
          LeerMercado(tabla, resp)
    \/ TicTiempo
    \/ Reiniciar

SpecMercadoConDatos == Init /\ [][NextMercadoConDatos]_vars

\* trades, with and without a price, while pages read the market data
FormulariosPrecio ==
    {Formulario(" san", TRUE, 2, 5), Formulario(" san", TRUE, 1, NULL)}

TablaSan == << <<"Banco Santander", "san">> >>

\* the provider gives data for every pair, or raises on every pair
RespuestasExtremas(ticks) ==
    {[par \in ticks \X Claves |-> m] : m \in {"datos", "error"}}

NextOperarConCache ==
    \/ \E uid \in Usuarios, form \in FormulariosPrecio : OperarComprar(uid, form)
    \/ \E uid \in Usuarios, form \in FormulariosPrecio : OperarVender(uid, form)
    \/ \E resp \in RespuestasExtremas({"san"}) : LeerMercado(TablaSan, resp)

SpecOperarConCache == Init /\ [][NextOperarConCache]_vars

\* the lists of (empresa, ticker) a download may be given
ListasTickers ==
    { <<>>,
      << <<"Banco Santander", "san">> >>,
      << <<"Banco Santander", "san">>, <<"BBVA", " bbva">> >>,
      << <<"BBVA", "bbva">>, <<"Banco Santander", "san">>, <<"BBVA", "bbva">> >>,
      << <<"", "">>, <<"BBVA", "bbva">> >> }

\* the first download of a process and the writing of its result:
\* descargar_datos_tickers(tickers_db) then guardar_datos_en_disco
DescargarYGuardar(tickers_db, resp) ==
    LET d == descargar_datos_tickers(tickers_db, resp, tiempo)
    IN  /\ ultima.op = "ninguna"
        /\ resultados_json' = IF d.excepcion THEN resultados_json
                              ELSE guardar_datos_en_disco(d.resultados)
        /\ ultima' = [op |-> "descargar", now |-> tiempo, antes |-> resultados_json,
                      ts_antes |-> market_refresh_json,
                      global_antes |-> TODOS_LOS_DATOS,
                      tickers |-> extraer_tickers(tickers_db), resp |-> resp,
                      devuelto |-> d.resultados, refresco |-> TRUE,
                      llamadas |-> d.llamadas, poblados |-> Poblados(d.resultados),
                      escrituras |-> IF d.excepcion THEN <<>> ELSE <<"resultados">>,
                      excepcion |-> d.excepcion]
        /\ UNCHANGED <<market_refresh_json, TODOS_LOS_DATOS, tiempo, lectores>>
        /\ UNCHANGED cartera

NextDescarga ==
    \E tickers_db \in ListasTickers, resp \in Respuestas({"san", "bbva"}) :
        DescargarYGuardar(tickers_db, resp)

SpecDescarga == Init /\ [][NextDescarga]_vars

\* ---------------------------------------- concurrent reads of the market
\* Two threads run cargar_datos_mercado at the same time, one statement that
\* reads or writes shared state (the global, the two files) per step.
Avanzar(h, campos) ==
    /\ lectores' = [lectores EXCEPT ![h] = campos]
    /\ UNCHANGED cartera
    /\ UNCHANGED <<tiempo, ultima>>

\* a request arrives: if existe_archivo(RUTA_RESULTADOS) and not
\* _ha_expirado_market_cache(...), step 1 loads; if not, step 2
Llegar(h) ==
    LET fresca == /\ existe_archivo(resultados_json)
                  /\ ~ha_expirado_market_cache(MARKET_REFRESH_TTL_SECONDS,
                                               market_refresh_json, tiempo)
    IN  /\ lectores[h].pc = "ocioso"
        /\ Avanzar(h, [lectores[h] EXCEPT !.pc = IF fresca THEN "probar" ELSE "paso2",
                                          !.paso = 1,
                                          !.data = DictVacio,
                                          !.nuevos = DictVacio])
        /\ UNCHANGED <<resultados_json, market_refresh_json, TODOS_LOS_DATOS>>

\* 2) if existe_archivo(RUTA_RESULTADOS): the fallback load
Paso2(h) ==
    /\ lectores[h].pc = "paso2"
    /\ Avanzar(h, [lectores[h] EXCEPT
                      !.pc = IF existe_archivo(resultados_json) THEN "probar" ELSE "paso3",
                      !.paso = 2])
    /\ UNCHANGED <<resultados_json, market_refresh_json, TODOS_LOS_DATOS>>

\* cargar_datos_desde_disco: if TODOS_LOS_DATOS == []
Probar(h) ==
    /\ lectores[h].pc = "probar"
    /\ Avanzar(h, [lectores[h] EXCEPT
                      !.pc = IF TODOS_LOS_DATOS = ListaVacia THEN "leer" ELSE "volver"])
    /\ UNCHANGED <<resultados_json, market_refresh_json, TODOS_LOS_DATOS>>

\* data = leer_json(self.ruta_resultados)
Leer(h) ==
    /\ lectores[h].pc = "leer"
    /\ Avanzar(h, [lectores[h] EXCEPT !.pc = "asignar",
                                      !.data = leer_json(resultados_json)])
    /\ UNCHANGED <<resultados_json, market_refresh_json, TODOS_LOS_DATOS>>

\* TODOS_LOS_DATOS = resultados
Asignar(h) ==
    LET resultados == Dict(Deserializar(lectores[h].data))
    IN  /\ lectores[h].pc = "asignar"
        /\ TODOS_LOS_DATOS' = resultados
        /\ Avanzar(h, [lectores[h] EXCEPT !.pc = "volver", !.asignado = resultados])
        /\ UNCHANGED <<resultados_json, market_refresh_json>>

\* return TODOS_LOS_DATOS, and what the caller does with it: step 1 returns
\* it if it is not empty, and goes on to step 2 if it is; step 2 goes on to
\* the refresh
Volver(h) ==
    /\ lectores[h].pc = "volver"
    /\ Avanzar(h, [lectores[h] EXCEPT
                      !.pc = IF lectores[h].paso = 2 THEN "paso3"
                             ELSE IF ~dict_vacio(TODOS_LOS_DATOS.datos) THEN "ocioso"
                             ELSE "paso2"])
    /\ UNCHANGED <<resultados_json, market_refresh_json, TODOS_LOS_DATOS>>

\* 3) datos_nuevos = mercado.descargar_datos_tickers(tickers_db)
Paso3(h, resp) ==
    LET d == descargar_datos_tickers(leer_tickers(TablaSan), resp, tiempo)
        hay == ~d.excepcion /\ ~dict_vacio(d.resultados)
    IN  /\ lectores[h].pc = "paso3"
        /\ Avanzar(h, [lectores[h] EXCEPT !.pc = IF hay THEN "guardar" ELSE "ocioso",
                                          !.nuevos = d.resultados])
        /\ UNCHANGED <<resultados_json, market_refresh_json, TODOS_LOS_DATOS>>

\* mercado.guardar_datos_en_disco(datos_nuevos)
Guardar(h) ==
    /\ lectores[h].pc = "guardar"
    /\ resultados_json' = guardar_datos_en_disco(lectores[h].nuevos)
    /\ Avanzar(h, [lectores[h] EXCEPT !.pc = "sellar"])
    /\ UNCHANGED <<market_refresh_json, TODOS_LOS_DATOS>>

\* _guardar_market_refresh_ts(time.time()); return datos_nuevos
Sellar(h) ==
    /\ lectores[h].pc = "sellar"
    /\ market_refresh_json' = guardar_market_refresh_ts(tiempo)
    /\ Avanzar(h, [lectores[h] EXCEPT !.pc = "ocioso"])
    /\ UNCHANGED <<resultados_json, TODOS_LOS_DATOS>>

\* the provider gives data for every pair
RespuestasBuenas(ticks) == {[par \in ticks \X Claves |-> "datos"]}

NextCarrera ==
    \/ \E h \in Hilos : Llegar(h)
    \/ \E h \in Hilos : Paso2(h)
    \/ \E h \in Hilos : Probar(h)
    \/ \E h \in Hilos : Leer(h)
    \/ \E h \in Hilos : Asignar(h)
    \/ \E h \in Hilos : Volver(h)
    \/ \E h \in Hilos, resp \in RespuestasBuenas({"san"}) : Paso3(h, resp)
    \/ \E h \in Hilos : Guardar(h)
    \/ \E h \in Hilos : Sellar(h)
    \/ TicTiempo

SpecCarrera == Init /\ [][NextCarrera]_vars

\* ------------------------------------------ trade requests at the same time
\* Two trade requests are handled at the same time, each on its own
\* connection.  A SELECT outside a transaction reads the committed database;
\* the first UPDATE of a request opens its transaction, which holds the write
\* lock of the database file until commit or close, so the writes of a
\* request and its commit are one step.

\* the writes of operar_comprar, from db_set_saldo to conn.commit()
comprar_escribir(conn, uid, ticker, cantidad, precio, cash, acciones_actuales, ahora) ==
    LET coste == Coste(precio, cantidad)
        acciones_nuevas == acciones_actuales + cantidad
        c1 == db_set_saldo(conn, uid, cash - coste)
        c2 == db_set_posicion(c1, ticker, acciones_nuevas)
        c3 == db_insert_compra(c2, uid, ticker, cantidad, precio, ahora)
    IN  [conn |-> c3, raised |-> FALSE]

\* the writes of operar_vender, from db_set_saldo to conn.commit()
vender_escribir(conn, uid, ticker, cantidad, precio, cash, acciones_actuales, ahora) ==
    LET ingreso == Ingreso(precio, cantidad)
        acciones_nuevas == acciones_actuales - cantidad
        c1 == db_set_saldo(conn, uid, cash + ingreso)
        c2 == db_set_posicion(c1, ticker, acciones_nuevas)
    IN  db_cerrar_compras(c2, uid, ticker, cantidad, precio, METODO_POR_DEFECTO, ahora)

\* the forms of the requests of a pair
FormulariosPar == {Formulario(" san", TRUE, 1, 5), Formulario(" san", TRUE, 2, 5)}

\* the requests of a pair: the route, the user and the form
Pedidos == [op : {"comprar", "vender"}, usuario : Usuarios, form : FormulariosPar]

\* a request up to repo.conectar(): its ticker, quantity and price
Recibida(pedido) ==
    LET ticker == strip_upper(pedido.form.ticker)
    IN  [PeticionOciosa EXCEPT
            !.pc = "leer1", !.op = pedido.op, !.usuario = pedido.usuario,
            !.form = pedido.form,
            !.ticker = ticker, !.cantidad = Max(1, pedido.form.n),
            !.precio = obtener_precio_operacion(ticker, pedido.form.precio_rt)]

Seguir(k, campos) ==
    /\ en_vuelo' = [en_vuelo EXCEPT !.p[k] = campos]
    /\ UNCHANGED <<reloj, last, peticion>>
    /\ UNCHANGED mercado

\* two requests arrive
LanzarPar(a, b) ==
    /\ \A k \in Hilos : en_vuelo.p[k].pc = "ocioso"
    /\ Len(compras) + 2 <= MaxCompras
    /\ en_vuelo' = [antes |-> BD, p |-> [k \in Hilos |-> Recibida(IF k = 1 THEN a ELSE b)]]
    /\ UNCHANGED <<saldo, posiciones, compras, reloj, last, eventos, peticion>>
    /\ UNCHANGED mercado

\* the first read of a handler and its test: cash = repo.db_get_saldo(conn, uid)
\* of a buy, portfolio = repo.db_get_posiciones(conn) of a sell
Leer1(k) ==
    LET r == en_vuelo.p[k]
        conn == conectar(BD)
        cash == db_get_saldo(conn, r.usuario)
        acciones_actuales == portfolio_get(db_get_posiciones(conn), r.ticker)
    IN  /\ r.pc = "leer1"
        /\ Seguir(k, IF r.op = "comprar"
                     THEN IF SaldoInsuficiente(cash, Coste(r.precio, r.cantidad))
                          THEN [r EXCEPT !.pc = "fin", !.cash = cash,
                                         !.res = "saldo_insuficiente"]
                          ELSE [r EXCEPT !.pc = "leer2", !.cash = cash]
                     ELSE IF AccionesInsuficientes(acciones_actuales, r.cantidad)
                          THEN [r EXCEPT !.pc = "fin",
                                         !.acciones_actuales = acciones_actuales,
                                         !.res = "acciones_insuficientes"]
                          ELSE [r EXCEPT !.pc = "leer2",
                                         !.acciones_actuales = acciones_actuales])
        /\ UNCHANGED <<saldo, posiciones, compras, eventos>>

\* the second read: portfolio = repo.db_get_posiciones(conn) of a buy,
\* cash = repo.db_get_saldo(conn, uid) of a sell and its test of the credit
Leer2(k) ==
    LET r == en_vuelo.p[k]
        conn == conectar(BD)
        cash == db_get_saldo(conn, r.usuario)
        acciones_actuales == portfolio_get(db_get_posiciones(conn), r.ticker)
    IN  /\ r.pc = "leer2"
        /\ Seguir(k, IF r.op = "comprar"
                     THEN [r EXCEPT !.pc = "escribir",
                                    !.acciones_actuales = acciones_actuales]
                     ELSE IF IngresoNegativo(Ingreso(r.precio, r.cantidad))
                          THEN [r EXCEPT !.pc = "fin", !.cash = cash,
                                         !.res = "ingreso_negativo"]
                          ELSE [r EXCEPT !.pc = "escribir", !.cash = cash])
        /\ UNCHANGED <<saldo, posiciones, compras, eventos>>

\* the transaction of a request: its writes, then conn.commit(), or
\* conn.close() alone when db_cerrar_compras raised
Escribir(k) ==
    LET r == en_vuelo.p[k]
        conn == conectar(BD)
        w == IF r.op = "comprar"
             THEN comprar_escribir(conn, r.usuario, r.ticker, r.cantidad, r.precio,
                                   r.cash, r.acciones_actuales, reloj)
             ELSE vender_escribir(conn, r.usuario, r.ticker, r.cantidad, r.precio,
                                  r.cash, r.acciones_actuales, reloj)
        bd == conn_close(BD, w.conn, ~w.raised)
    IN  /\ r.pc = "escribir"
        /\ saldo' = bd.saldo
        /\ posiciones' = bd.posiciones
        /\ compras' = bd.compras
        /\ eventos' = IF w.raised THEN eventos
                      ELSE Append(eventos, Evento(r.op, r.usuario, r))
        /\ Seguir(k, [r EXCEPT !.pc = "fin",
                               !.res = IF w.raised THEN "ValueError" ELSE "ok"])

\* both responses have been sent
Terminar ==
    /\ \A k \in Hilos : en_vuelo.p[k].pc = "fin"
    /\ en_vuelo' = ParOcioso
    /\ UNCHANGED <<saldo, posiciones, compras, reloj, last, eventos, peticion>>
    /\ UNCHANGED mercado

NextPar ==
    \/ \E a, b \in Pedidos : LanzarPar(a, b)
    \/ \E k \in Hilos : Leer1(k)
    \/ \E k \in Hilos : Leer2(k)
    \/ \E k \in Hilos : Escribir(k)
    \/ Terminar
    \/ (\A k \in Hilos : en_vuelo.p[k].pc = "ocioso") /\ Tic

SpecPar == Init /\ [][NextPar]_vars

\* ------------------------------------------------ the ledger with triggers
\* the trade forms sent while triggers are set: one and two shares at 5, and
\* one share at 10 (a sale of it nets nothing and may split a lot)
FormulariosConAuto ==
    {Formulario(" san", TRUE, 1, 5),
     Formulario(" san", TRUE, 2, 5),
     Formulario(" san", TRUE, 1, 10)}

\* the buys among them: those at 5
ComprasConAuto == {f \in FormulariosConAuto : f.precio_rt = 5}

\* the sales among them: those that net something
VentasConAuto == {f \in FormulariosConAuto : Ingreso(f.precio_rt, f.n) >= 0}

\* the forms of /operar/guardar_auto
FormulariosAuto == {FormularioAuto(" san", " 7 ", "4,0")}

\* the forms of /operar/eliminar_auto
FormulariosEliminar == {FormularioAuto(" san", "", "")}

\* a trade request whose form is kept as it was typed
PedirComprar(uid, form) ==
    /\ Len(operar_comprar(BD, uid, form, reloj).trabajo.compras) <= MaxComprasAuto
    /\ Atender("comprar", uid, "", form, operar_comprar(BD, uid, form, reloj))
    /\ peticion' = [ruta |-> "comprar", form |-> form]

PedirVender(uid, form) ==
    /\ Len(operar_vender(BD, uid, form, reloj).trabajo.compras) <= MaxComprasAuto
    /\ Atender("vender", uid, METODO_POR_DEFECTO, form,
               operar_vender(BD, uid, form, reloj))
    /\ peticion' = [ruta |-> "vender", form |-> form]

\* one trigger request, from arrival to the closing of its connection
AtenderAuto(op, uid, form, plan, r) ==
    LET bd == conn_close(BD, r.trabajo, r.commit)
    IN  /\ saldo' = bd.saldo
        /\ posiciones' = bd.posiciones
        /\ compras' = bd.compras
        /\ UNCHANGED <<reloj, eventos, en_vuelo>>
        /\ UNCHANGED mercado
        /\ last' = [op |-> op, usuario |-> uid, ticker |-> r.ticker,
                    cantidad |-> 0, precio |-> NULL, metodo |-> "",
                    res |-> r.res, precio_rt |-> NULL,
                    antes |-> BD, trabajo |-> r.trabajo,
                    tp |-> r.tp, sl |-> r.sl,
                    leido |-> db_get_auto_venta_compra_activa(bd, uid, r.ticker, plan)]
        /\ peticion' = [ruta |-> op, form |-> form]

OperarGuardarAuto(uid, form, plan) ==
    AtenderAuto("guardar_auto", uid, form, plan,
                operar_guardar_auto(BD, uid, form, plan))

OperarEliminarAuto(uid, form, plan) ==
    AtenderAuto("eliminar_auto", uid, form, plan,
                operar_eliminar_auto(BD, uid, form, plan))

NextAuto ==
    \/ \E uid \in Usuarios, form \in ComprasConAuto : PedirComprar(uid, form)
    \/ \E uid \in Usuarios, form \in VentasConAuto : PedirVender(uid, form)
    \/ \E uid \in Usuarios, form \in FormulariosAuto, plan \in PlanesSQL :
          OperarGuardarAuto(uid, form, plan)
    \/ \E uid \in Usuarios, form \in FormulariosEliminar, plan \in PlanesSQL :
          OperarEliminarAuto(uid, form, plan)
    \/ Tic

SpecAuto == Init /\ [][NextAuto]_vars

\* ------------------------------------------- requests with malformed forms
\* the trade forms: a well-formed one, the quantities 0 and -2, a quantity
\* that is not a number and a form without ticker
FormulariosDudosos ==
    {Formulario(" san", TRUE, 1, 5),
     Formulario(" san", TRUE, 0, 5),
     Formulario(" san", TRUE, -2, 5),
     Formulario(" san", FALSE, 0, 5),
     Formulario("", TRUE, 1, 5)}

\* the trigger forms: a well-formed one, an upper threshold that is not a
\* number and a form without ticker
FormulariosAutoDudosos ==
    {FormularioAuto(" san", " 7 ", "4,0"),
     FormularioAuto(" san", "abc", "4,0"),
     FormularioAuto("", " 7 ", "4,0")}

NextValidacion ==
    \/ \E uid \in Usuarios, form \in FormulariosDudosos : PedirComprar(uid, form)
    \/ \E uid \in Usuarios, form \in FormulariosDudosos : PedirVender(uid, form)
    \/ \E uid \in Usuarios, form \in FormulariosAutoDudosos, plan \in PlanesSQL :
          OperarGuardarAuto(uid, form, plan)
    \/ \E uid \in Usuarios, form \in FormulariosEliminar \cup {FormularioAuto("", "", "")},
          plan \in PlanesSQL :
          OperarEliminarAuto(uid, form, plan)

SpecValidacion == Init /\ [][NextValidacion]_vars

\* ------------------------------------------------------------------ claims
\* the request of the last step, the database it found and its connection's
\* view when it closed
Antes == last.antes
Trabajo == last.trabajo

RECURSIVE SumaCantidad(_, _)
SumaCantidad(cs, S) ==
    IF S = {} THEN 0
    ELSE LET i == CHOOSE x \in S : TRUE
         IN  cs[i].cantidad + SumaCantidad(cs, S \ {i})

\* total quantity of the open lots of (usuario_id, ticker)
CantidadAbierta(cs, usuario_id, ticker) ==
    SumaCantidad(cs, Abiertas(cs, usuario_id, ticker))

\* the last step handled a buy / a sell whose quantity and price were read
EsCompra == last.op = "comprar" /\ last.cantidad >= 1 /\ last.precio # NULL
EsVenta == last.op = "vender" /\ last.cantidad >= 1 /\ last.precio # NULL

\* C1: a sell is all-or-nothing: either everything its connection wrote
\* (balance credit, position, lot closures) is persisted and the sale
\* succeeded, or the persisted balance, positions and lots are what they were.
C1_VentaTodoONada ==
    last.op = "vender" =>
        \/ /\ last.res = "ok"
           /\ BD = Trabajo
           /\ Trabajo.saldo[last.usuario] =
                  Antes.saldo[last.usuario] + last.precio * last.cantidad
                                            - COMISION_POR_OPERACION
           /\ Trabajo.posiciones[last.ticker] =
                  portfolio_get(Antes.posiciones, last.ticker) - last.cantidad
           /\ Trabajo.compras # Antes.compras
        \/ /\ last.res # "ok"
           /\ BD = Antes

\* a sale that failed in the lot-closing routine after it had closed a lot
C1_Testigo ==
    /\ last.op = "vender"
    /\ last.res = "ValueError"
    /\ Trabajo.compras # Antes.compras
    /\ Trabajo.saldo # Antes.saldo
    /\ BD = Antes

\* C2: a buy that passes the funds check debits exactly price*qty + commission
\* from the buyer and from nobody else, appends exactly one open lot of that
\* quantity and price for (user, ticker) leaving every other lot as it was,
\* and raises the ticker's position by qty.
C2_CompraExacta ==
    (/\ EsCompra
     /\ Antes.saldo[last.usuario] >=
            last.precio * last.cantidad + COMISION_POR_OPERACION)
    =>
    /\ saldo = [Antes.saldo EXCEPT ![last.usuario] =
                   @ - (last.precio * last.cantidad + COMISION_POR_OPERACION)]
    /\ Len(compras) = Len(Antes.compras) + 1
    /\ SubSeq(compras, 1, Len(Antes.compras)) = Antes.compras
    /\ LET nueva == compras[Len(compras)]
       IN  /\ nueva.usuario = last.usuario
           /\ nueva.ticker = last.ticker
           /\ nueva.cantidad = last.cantidad
           /\ nueva.precio_compra = last.precio
           /\ nueva.precio_venta = NULL
           /\ nueva.fecha_venta = NULL
    /\ last.ticker \in DOMAIN posiciones
    /\ posiciones[last.ticker] =
           portfolio_get(Antes.posiciones, last.ticker) + last.cantidad
    /\ \A s \in DOMAIN Antes.posiciones :
           s # last.ticker => posiciones[s] = Antes.posiciones[s]

\* a buy that succeeded while the other user held a lot and the buyer held a
\* lot of another ticker
C2_Testigo ==
    /\ EsCompra
    /\ last.res = "ok"
    /\ \E i \in 1..Len(Antes.compras) : Antes.compras[i].usuario # last.usuario
    /\ \E i \in 1..Len(Antes.compras) :
           /\ Antes.compras[i].usuario = last.usuario
           /\ Antes.compras[i].ticker # last.ticker

\* C3: a buy whose cost exceeds the buyer's cash fails with the
\* insufficient-funds error before anything is written: the connection has
\* written nothing and balance, positions and lots are unchanged.
C3_CompraSinFondos ==
    (/\ EsCompra
     /\ last.precio * last.cantidad + COMISION_POR_OPERACION >
            Antes.saldo[last.usuario])
    =>
    /\ last.res = "saldo_insuficiente"
    /\ Trabajo = Antes
    /\ BD = Antes

\* a buy refused although the cash covers the shares without the commission
C3_Testigo ==
    /\ EsCompra
    /\ last.res = "saldo_insuficiente"
    /\ Antes.saldo[last.usuario] >= last.precio * last.cantidad

\* C4: a successful sell credits exactly price*qty - commission, lowers the
\* position by qty and lowers the seller's open quantity of the ticker by qty.
C4_VentaExacta ==
    (EsVenta /\ last.res = "ok")
    =>
    /\ saldo[last.usuario] =
           Antes.saldo[last.usuario] + (last.precio * last.cantidad
                                        - COMISION_POR_OPERACION)
    /\ posiciones[last.ticker] =
           portfolio_get(Antes.posiciones, last.ticker) - last.cantidad
    /\ CantidadAbierta(compras, last.usuario, last.ticker) =
           CantidadAbierta(Antes.compras, last.usuario, last.ticker) - last.cantidad

\* a sale that succeeded with a positive credit while the seller held an open
\* lot of another ticker
C4_Testigo ==
    /\ EsVenta
    /\ last.res = "ok"
    /\ last.precio * last.cantidad > COMISION_POR_OPERACION
    /\ \E i \in 1..Len(Antes.compras) :
           /\ Antes.compras[i].usuario = last.usuario
           /\ Antes.compras[i].ticker # last.ticker
           /\ Antes.compras[i].fecha_venta = NULL

\* C5: a sell whose credit price*qty - commission is negative is rejected and
\* changes no balance, position or lot.
C5_VentaIngresoNegativo ==
    (EsVenta /\ last.precio * last.cantidad - COMISION_POR_OPERACION < 0)
    =>
    /\ last.res # "ok"
    /\ BD = Antes

\* a sale the seller had the shares for, refused for its negative credit
C5_Testigo ==
    /\ EsVenta
    /\ last.res = "ingreso_negativo"
    /\ CantidadAbierta(Antes.compras, last.usuario, last.ticker) >= last.cantidad

\* C6: a sell is rejected with the insufficient-shares error, and changes
\* nothing, whenever the seller's open lots of the ticker total less than the
\* quantity, whoever else holds lots of that ticker.
C6_VentaSinAcciones ==
    (/\ EsVenta
     /\ CantidadAbierta(Antes.compras, last.usuario, last.ticker) < last.cantidad)
    =>
    /\ last.res = "acciones_insuficientes"
    /\ BD = Antes

\* C7: the quantity-shortfall error of db_cerrar_compras is unreachable: when
\* the shares check of the sell handler passes, the routine finds enough open
\* lots of that user and ticker.
C7_FaltanteInalcanzable ==
    last.res # "ValueError"

\* C8: when the open quantity of (user, ticker) is smaller than the quantity
\* to sell, db_cerrar_compras raises before it has written any row.
C8_FaltanteSinEscribir ==
    (/\ EsVenta
     /\ last.res = "ValueError")
    => Trabajo.compras = Antes.compras

\* the rows the last sale found open for its user and ticker, and what the
\* lot-closing routine did to row i of them
AbiertasAntes == Abiertas(Antes.compras, last.usuario, last.ticker)
Tocada(i) == Trabajo.compras[i] # Antes.compras[i]
CerradaEntera(i) ==
    /\ Trabajo.compras[i].fecha_venta # NULL
    /\ Trabajo.compras[i].cantidad = Antes.compras[i].cantidad
Partida(i) == Trabajo.compras[i].cantidad # Antes.compras[i].cantidad

\* row j was bought strictly before row i in the direction of the method:
\* later for LIFO, earlier for FIFO
AntesEnOrden(j, i) ==
    IF last.metodo = "LIFO"
    THEN Antes.compras[j].fecha_compra > Antes.compras[i].fecha_compra
    ELSE Antes.compras[j].fecha_compra < Antes.compras[i].fecha_compra

\* the lot-closing routine ran in the last step
CerroCompras == EsVenta /\ last.res \in {"ok", "ValueError"}

\* C9: lot matching follows purchase order: a sale touches an open lot only
\* if every open lot of the same user and ticker bought later (LIFO) or
\* earlier (FIFO) is fully closed by that sale; at most one lot is split, and
\* it is the last one touched.
C9_OrdenDeCompra ==
    CerroCompras =>
    /\ \A i, j \in AbiertasAntes :
           (Tocada(i) /\ AntesEnOrden(j, i)) => CerradaEntera(j)
    /\ Cardinality({i \in AbiertasAntes : Partida(i)}) <= 1
    /\ \A i, j \in AbiertasAntes :
           (Partida(i) /\ j # i /\ Tocada(j)) =>
               (CerradaEntera(j) /\ ~AntesEnOrden(i, j))

\* a FIFO sale that closed an older lot and split a newer one
C9_Testigo ==
    /\ CerroCompras
    /\ last.metodo = "FIFO"
    /\ last.res = "ok"
    /\ \E i, j \in AbiertasAntes :
           /\ CerradaEntera(i)
           /\ Partida(j)
           /\ Antes.compras[i].fecha_compra < Antes.compras[j].fecha_compra

\* C10: a lot matched by a sale with q shares left to sell is closed in place,
\* with no row added, when its quantity Q is at most q; when q < Q exactly one
\* row is added: the lot stays open with Q - q, the new row is closed with
\* quantity q and carries the lot's buy price and buy time and the sale price.
C10_CierreOParticion ==
    CerroCompras =>
    LET cs0 == Antes.compras
        cs1 == Trabajo.compras
        filas == 1..Len(cs0)
        cerradas == {i \in filas : Tocada(i) /\ ~Partida(i)}
        partidas == {i \in filas : Partida(i)}
        q == last.cantidad - SumaCantidad(cs0, cerradas)
    IN  /\ Len(cs1) = Len(cs0) + Cardinality(partidas)
        /\ Cardinality(partidas) <= 1
        /\ \A i \in cerradas :
               /\ cs1[i].precio_venta = last.precio
               /\ cs1[i].fecha_venta # NULL
               /\ cs1[i] = [cs0[i] EXCEPT !.precio_venta = cs1[i].precio_venta,
                                          !.fecha_venta = cs1[i].fecha_venta,
                                          !.auto_sup = NULL,
                                          !.auto_inf = NULL]
        /\ \A i \in partidas :
               LET nueva == cs1[Len(cs1)]
               IN  /\ 0 < q /\ q < cs0[i].cantidad
                   /\ cs1[i] = [cs0[i] EXCEPT !.cantidad = cs0[i].cantidad - q]
                   /\ cs1[i].fecha_venta = NULL
                   /\ nueva.cantidad = q
                   /\ nueva.cantidad + cs1[i].cantidad = cs0[i].cantidad
                   /\ nueva.fecha_venta # NULL
                   /\ nueva.precio_venta = last.precio
                   /\ nueva.precio_compra = cs0[i].precio_compra
                   /\ nueva.fecha_compra = cs0[i].fecha_compra
                   /\ nueva.usuario = cs0[i].usuario
                   /\ nueva.ticker = cs0[i].ticker

\* a sale that closed one lot in place and split another, at a price and a
\* time other than the split lot's
C10_Testigo ==
    /\ CerroCompras
    /\ last.res = "ok"
    /\ \E i, j \in AbiertasAntes :
           /\ CerradaEntera(i)
           /\ Partida(j)
           /\ Antes.compras[j].precio_compra # last.precio
           /\ Antes.compras[j].fecha_compra # Trabajo.compras[i].fecha_venta

\* ---------------------------------------------------------- average cost
TickersOperados == {"SAN", "BBVA"}

\* the committed trades of (usuario_id, ticker), in chronological order
EventosDe(usuario_id, ticker) ==
    SelectSeq(eventos, LAMBDA e : e.usuario = usuario_id /\ e.ticker = ticker)

\* shares held after the first n events of evs
RECURSIVE AccionesTras(_, _)
AccionesTras(evs, n) ==
    IF n = 0 THEN 0
    ELSE AccionesTras(evs, n - 1)
         + (IF evs[n].tipo = "BUY" THEN evs[n].qty ELSE 0 - evs[n].qty)

NuncaSobrevende(evs) == \A n \in 0..Len(evs) : AccionesTras(evs, n) >= 0

\* the reference fold of the average cost over the first n events of evs:
\* a buy sets avgCost = (avgCost*shares + price*qty + commission)/(shares+qty),
\* a sell that brings the shares to 0 or below resets it to 0
RECURSIVE CosteReferencia(_, _)
CosteReferencia(evs, n) ==
    IF n = 0 THEN FraccionCero
    ELSE LET avg == CosteReferencia(evs, n - 1)
             shares == AccionesTras(evs, n - 1)
             e == evs[n]
         IN  IF e.tipo = "BUY"
             THEN Fraccion(avg.num * shares
                           + (e.price * e.qty + COMISION_POR_OPERACION) * avg.den,
                           avg.den * (shares + e.qty))
             ELSE IF shares - e.qty <= 0 THEN FraccionCero ELSE avg

\* C11: after any sequence of buys and sells of one (user, ticker) that never
\* oversells and ends with net shares 0, the average cost computed from the
\* lot rows is 0.
C11_CosteCeroTrasLiquidar ==
    \A u \in Usuarios, t \in TickersOperados :
        LET evs == EventosDe(u, t)
        IN  (/\ evs # <<>>
             /\ NuncaSobrevende(evs)
             /\ AccionesTras(evs, Len(evs)) = 0)
            => FraccionIgual(db_coste_medio_posicion(BD, u, t), FraccionCero)

\* C12: for every history of buys and sells of one (user, ticker), the average
\* cost computed from the lot rows equals the reference fold over those
\* events in chronological order, one commission per buy event.
C12_CosteIgualReferencia ==
    \A u \in Usuarios, t \in TickersOperados :
        LET evs == EventosDe(u, t)
        IN  FraccionIgual(db_coste_medio_posicion(BD, u, t),
                          CosteReferencia(evs, Len(evs)))

\* C13: every lot has quantity >= 0, a lot is open (no sell timestamp)
\* exactly when both its sell price and its sell timestamp are null, and a
\* closed lot's sell timestamp is not earlier than its buy timestamp; in the
\* committed table and in the view of the last connection.
LoteBienFormado(fila) ==
    /\ fila.cantidad >= 0
    /\ (fila.fecha_venta = NULL) <=> (fila.precio_venta = NULL /\ fila.fecha_venta = NULL)
    /\ fila.fecha_venta # NULL => fila.fecha_venta >= fila.fecha_compra

LeyoMercado == ultima.op = "leer"

\* the read found the snapshot file and a last-refresh time within the TTL
FrescaAntes ==
    /\ existe_archivo(ultima.antes)
    /\ existe_archivo(ultima.ts_antes)
    /\ ultima.ts_antes.datos["ts"] > 0
    /\ ultima.now - ultima.ts_antes.datos["ts"] < MARKET_REFRESH_TTL_SECONDS

\* the read refreshed and at least one (ticker, period) pair gave data
RefrescoConDatos == ultima.refresco /\ ultima.poblados # {}

\* the read refreshed and no pair gave data
RefrescoFallido == ultima.refresco /\ ultima.poblados = {}

\* C14: a read that finds the snapshot file and a last-refresh time within the
\* TTL makes no call to the provider, whatever reads and refreshes came before
\* (refreshes in which some or all fetches failed included).
C14_FrescaSinProveedor ==
    (LeyoMercado /\ FrescaAntes) => (~ultima.refresco /\ ultima.llamadas = {})

\* C15: a read that finds the snapshot fresh serves the snapshot persisted on
\* disk; after a successful refresh that is the refreshed data.
C15_FrescaSirveDisco ==
    (LeyoMercado /\ FrescaAntes) =>
        ultima.devuelto = Deserializar(leer_json(resultados_json))

\* C16: a refresh in which no pair gave data returns the previous on-disk
\* snapshot if there is one and an empty mapping otherwise, and leaves the
\* snapshot file as it was.
C16_FalloTotalConservaDisco ==
    (LeyoMercado /\ RefrescoFallido) =>
        /\ ultima.devuelto = Deserializar(leer_json(ultima.antes))
        /\ resultados_json = ultima.antes

\* C17: a read writes the snapshot and then the last-refresh time exactly when
\* its refresh populated at least one pair; otherwise it writes neither and
\* the last-refresh time stays as it was.
C17_SelloSoloConDatos ==
    LeyoMercado =>
        IF RefrescoConDatos
        THEN /\ ultima.escrituras = <<"resultados", "market_refresh">>
             /\ market_refresh_json = guardar_market_refresh_ts(ultima.now)
        ELSE /\ ultima.escrituras = <<>>
             /\ market_refresh_json = ultima.ts_antes
             /\ resultados_json = ultima.antes

\* the tickers of the last download
TickersDescarga == {ultima.tickers[k] : k \in 1..Len(ultima.tickers)}

\* C18: each (ticker, period) fetch is independent: whatever pairs fail or
\* come back without rows, the download asks for every pair, the snapshot
\* written holds the data of every pair that succeeded and of no other, a
\* ticker all of whose pairs failed is absent from it, and no error leaves
\* the download.
C18_ParesIndependientes ==
    ultima.op = "descargar" =>
        LET snapshot == leer_json(resultados_json)
        IN  /\ ~ultima.excepcion
            /\ ultima.llamadas = TickersDescarga \X Claves
            /\ existe_archivo(resultados_json)
            /\ \A t \in TickersDescarga :
                   IF \A c \in Claves : ultima.resp[<<t, c>>] # "datos"
                   THEN t \notin DOMAIN snapshot
                   ELSE /\ t \in DOMAIN snapshot
                        /\ DOMAIN snapshot[t] =
                               {c \in Claves : ultima.resp[<<t, c>>] = "datos"}
                        /\ \A c \in DOMAIN snapshot[t] :
                               snapshot[t][c] = to_dict_records(Historia(t, c, ultima.now))
            /\ DOMAIN snapshot \subseteq TickersDescarga

\* a download of two tickers: every fetch of the first raised, the second got
\* data for some periods and no rows for the others
C18_Testigo ==
    /\ ultima.op = "descargar"
    /\ Len(ultima.tickers) = 2
    /\ \A c \in Claves : ultima.resp[<<ultima.tickers[1], c>>] = "error"
    /\ \E c \in Claves : ultima.resp[<<ultima.tickers[2], c>>] = "datos"
    /\ \E c \in Claves : ultima.resp[<<ultima.tickers[2], c>>] = "error"
    /\ ultima.tickers[2] \in DOMAIN leer_json(resultados_json)

\* C19: the in-memory snapshot is populated from the snapshot file by the
\* first read that finds one, is changed by no later read that does not
\* refresh with data, and is overwritten with the new data by every refresh
\* that got data.
C19_MemoriaSigueAlRefresco ==
    LeyoMercado =>
        IF RefrescoConDatos
        THEN TODOS_LOS_DATOS = Dict(ultima.devuelto)
        ELSE IF ultima.global_antes = ListaVacia /\ existe_archivo(ultima.antes)
             THEN TODOS_LOS_DATOS = Dict(Deserializar(leer_json(ultima.antes)))
             ELSE TODOS_LOS_DATOS = ultima.global_antes

\* ------------------------------------------------------- real-time price
\* the last step was a buy or a sell whose price lookup gave no price
SinPrecioRT ==
    /\ last.op \in {"comprar", "vender"}
    /\ last.ticker # ""
    /\ last.precio_rt = NULL

\* the in-memory snapshot holds bars of the 1-day period of san
CacheConPrecio ==
    /\ "san" \in DOMAIN TODOS_LOS_DATOS.datos
    /\ "D" \in DOMAIN TODOS_LOS_DATOS.datos["san"]

\* C20: when the real-time price lookup fails or returns no rows, a buy or a
\* sell executes no trade: the request has no price, its connection writes
\* nothing and balance, positions and lots stay as they were, whatever the
\* cached market snapshot holds.
C20_SinPrecioNoOpera ==
    SinPrecioRT =>
        /\ last.res = "sin_precio"
        /\ last.precio = NULL
        /\ Trabajo = Antes
        /\ BD = Antes

\* a buy whose lookup failed while the snapshot in memory held a price the
\* buyer could pay, and a lot was open that a sale could have closed
C20_Testigo ==
    /\ SinPrecioRT
    /\ last.op = "comprar"
    /\ CacheConPrecio
    /\ Antes.saldo[last.usuario] >=
           UltimoCierre(TODOS_LOS_DATOS.datos["san"]["D"]) + COMISION_POR_OPERACION
    /\ \E i \in 1..Len(compras) : compras[i].fecha_venta = NULL

\* ------------------------------------------------------- malformed input
\* the text of a threshold is neither empty nor a number
UmbralMalformado(s) ==
    limpiar_texto(s) # "" /\ float_o_none(limpiar_texto(s)) = NULL

\* the last request carried malformed input: a quantity that is not a
\* positive integer, an empty ticker or a threshold that is not a number
PeticionMalformada ==
    \/ /\ peticion.ruta \in {"comprar", "vender"}
       /\ \/ ~peticion.form.entero
          \/ peticion.form.n < 1
          \/ strip_upper(peticion.form.ticker) = ""
    \/ /\ peticion.ruta = "guardar_auto"
       /\ \/ strip_upper(peticion.form.ticker) = ""
          \/ UmbralMalformado(peticion.form.tp)
          \/ UmbralMalformado(peticion.form.sl)
    \/ /\ peticion.ruta = "eliminar_auto"
       /\ strip_upper(peticion.form.ticker) = ""

\* C21: a request that carries malformed input (a quantity that is not a
\* positive integer, an empty ticker, a threshold that is not a number) leaves
\* the database as it found it: no balance, position, lot or stored threshold
\* differs after the request.
C21_MalformadaNoCambia ==
    PeticionMalformada => BD = Antes

\* --------------------------------------------------- triggers and trading
EsAuto == last.op \in {"guardar_auto", "eliminar_auto"}

\* the rows the last request found in compras
FilasAntes == 1..Len(Antes.compras)

\* row i carries the thresholds it carried before the last request
MismosUmbrales(i) ==
    /\ compras[i].auto_sup = Antes.compras[i].auto_sup
    /\ compras[i].auto_inf = Antes.compras[i].auto_inf

\* row i is as it was, but for its thresholds
MismaFilaSalvoUmbrales(i) ==
    compras[i] = [Antes.compras[i] EXCEPT !.auto_sup = compras[i].auto_sup,
                                          !.auto_inf = compras[i].auto_inf]

\* the last request set or cleared a trigger and changed no balance, no
\* position, and no lot but for its thresholds
AutoSoloTocaUmbrales ==
    EsAuto =>
        /\ saldo = Antes.saldo
        /\ posiciones = Antes.posiciones
        /\ Len(compras) = Len(Antes.compras)
        /\ \A i \in FilasAntes : MismaFilaSalvoUmbrales(i)

\* the last request closed row i, which it had found open
CerradaAhora(i) ==
    Antes.compras[i].fecha_venta = NULL /\ compras[i].fecha_venta # NULL

\* C22 as stated: no buy and no sell changes the thresholds stored on any
\* lot, and setting or clearing a trigger changes no balance, position, lot
\* quantity, price or timestamp.
C22_DisparadoresIndependientes ==
    /\ (EsCompra \/ EsVenta) => \A i \in FilasAntes : MismosUmbrales(i)
    /\ AutoSoloTocaUmbrales

\* C22, amended: no buy changes the thresholds stored on any lot; a sell
\* changes the thresholds only of the lots it closes, which it clears, and
\* leaves those of every other lot (the open remainder of a split lot
\* included) as they were; setting or clearing a trigger changes no balance,
\* position, lot quantity, price or timestamp.
C22_SoloElCierreBorra ==
    /\ EsCompra => \A i \in FilasAntes : MismosUmbrales(i)
    /\ EsVenta => \A i \in FilasAntes :
          IF CerradaAhora(i)
          THEN compras[i].auto_sup = NULL /\ compras[i].auto_inf = NULL
          ELSE MismosUmbrales(i)
    /\ AutoSoloTocaUmbrales

\* a committed sale has closed a lot that carried thresholds
C22_Testigo ==
    /\ EsVenta /\ last.res = "ok"
    /\ \E i \in FilasAntes :
          /\ CerradaAhora(i)
          /\ Antes.compras[i].auto_sup # NULL
          /\ Antes.compras[i].auto_inf # NULL

\* ------------------------------------------------- lazy population races
\* thread h has stored a value in TODOS_LOS_DATOS
HaAsignado(h) == lectores[h].asignado # ListaVacia

\* thread h has found TODOS_LOS_DATOS == [] and has not yet stored its value
VaAAsignar(h) == lectores[h].pc \in {"leer", "asignar"}

\* C23: for any interleaving of the requests that populate the in-memory
\* snapshot, every writer stores the same value, and once no writer is left
\* the in-memory snapshot is that value, whichever writer was last.
C23_PoblacionIdempotente ==
    /\ \A h1, h2 \in Hilos :
          HaAsignado(h1) /\ HaAsignado(h2) =>
              lectores[h1].asignado = lectores[h2].asignado
    /\ \A h \in Hilos :
          (HaAsignado(h) /\ \A g \in Hilos : ~VaAAsignar(g)) =>
              TODOS_LOS_DATOS = lectores[h].asignado

\* ------------------------------------------------- the lot of a trigger
\* the open lots the last request found for its user and ticker
AbiertasDelPedido == Abiertas(Antes.compras, last.usuario, last.ticker)

\* the most recently opened of them: rows are inserted in the order of their
\* "ID", and the open remainder of a split lot keeps its row
UltimaAbierta == CHOOSE i \in AbiertasDelPedido : \A j \in AbiertasDelPedido : j <= i

\* C24: set (and clear, a set of no thresholds) and read address the same
\* single lot: when the user holds an open lot of the ticker, the thresholds
\* sent are written on the most recently opened of them, no other lot
\* changes, and a read returns the thresholds sent; when the user holds no
\* open lot, nothing changes and a read returns no thresholds.
C24_UnSoloLote ==
    EsAuto =>
        IF AbiertasDelPedido = {}
        THEN BD = Antes /\ last.leido = <<NULL, NULL>>
        ELSE /\ compras[UltimaAbierta].auto_sup = last.tp
             /\ compras[UltimaAbierta].auto_inf = last.sl
             /\ \A i \in FilasAntes \ {UltimaAbierta} : compras[i] = Antes.compras[i]
             /\ last.leido = <<last.tp, last.sl>>

\* ------------------------------------------------ positions and balances
\* the open lots of a ticker, whoever holds them
AbiertasDeTicker(cs, ticker) ==
    {i \in 1..Len(cs) : cs[i].ticker = ticker /\ cs[i].fecha_venta = NULL}

\* the stored position of a ticker, 0 when it has no row
PosicionGuardada(ticker) ==
    IF ticker \in DOMAIN posiciones THEN posiciones[ticker] ELSE 0

\* C25: after any sequence of buy and sell requests handled one at a time
\* from the empty ledger, the stored position of every ticker is the sum of
\* the quantities of the open lots of that ticker over all users, and it is
\* never negative.
C25_PosicionEsSumaDeLotes ==
    /\ DOMAIN posiciones \subseteq TickersOperados
    /\ \A t \in TickersOperados :
          /\ PosicionGuardada(t) = SumaCantidad(compras, AbiertasDeTicker(compras, t))
          /\ PosicionGuardada(t) >= 0

\* a committed sale has left shares of the ticker in the position, held by
\* the other user
C25_Testigo ==
    /\ EsVenta /\ last.res = "ok"
    /\ PosicionGuardada(last.ticker) >= 1
    /\ \E i \in AbiertasDeTicker(compras, last.ticker) : compras[i].usuario # last.usuario
    /\ \E i \in 1..Len(compras) : compras[i].fecha_venta # NULL

\* C27: the cash balance of a user is never negative, in any state reached by
\* buys and sells from the non-negative initial balances.
C27_SaldoNoNegativo ==
    \A u \in Usuarios : saldo[u] >= 0

\* a committed buy has spent the whole balance of its user
C27_Testigo ==
    /\ EsCompra /\ last.res = "ok"
    /\ saldo[last.usuario] = 0
    /\ Antes.saldo[last.usuario] > 0

\* ------------------------------------------------------------ closed lots
\* a lot with a sell price and a sell timestamp
Cerrada(fila) == fila.precio_venta # NULL /\ fila.fecha_venta # NULL

\* C28: a closed lot is final: a lot that has a sell price and a sell
\* timestamp is left as it is, field by field, by every later buy, sell,
\* trigger set and trigger clear; and a closed lot carries no thresholds.
C28_LoteCerradoFinal ==
    /\ \A i \in FilasAntes :
          Cerrada(Antes.compras[i]) => compras[i] = Antes.compras[i]
    /\ \A i \in 1..Len(compras) :
          Cerrada(compras[i]) =>
              compras[i].auto_sup = NULL /\ compras[i].auto_inf = NULL

\* thresholds have been set by a user whose latest lot of the ticker is
\* closed, and have been written on an older, open lot
C28_Testigo ==
    /\ last.op = "guardar_auto"
    /\ \E i, j \in FilasAntes :
          /\ i < j
          /\ Antes.compras[i].usuario = last.usuario
          /\ Antes.compras[j].usuario = last.usuario
          /\ Antes.compras[i].ticker = last.ticker
          /\ Antes.compras[j].ticker = last.ticker
          /\ Cerrada(Antes.compras[j])
          /\ Antes.compras[j].fecha_compra >= Antes.compras[i].fecha_compra
          /\ ~Cerrada(compras[i])
          /\ compras[i].auto_sup # Antes.compras[i].auto_sup

\* ------------------------------------------- two requests at the same time
\* the database after request r is handled alone on the database bd
EnSerie(bd, r) ==
    LET x == IF r.op = "comprar"
             THEN operar_comprar(bd, r.usuario, r.form, reloj)
             ELSE operar_vender(bd, r.usuario, r.form, reloj)
    IN  conn_close(bd, x.trabajo, x.commit)

ParTerminado == \A k \in Hilos : en_vuelo.p[k].pc = "fin"

\* C26: whatever the interleaving of two trade requests, each on its own
\* connection, the database they leave is the one that handling them one
\* after the other, in one of the two orders, leaves: no debit, credit or
\* position change is lost, and the position of every ticker is the sum of
\* the quantities of its open lots.
C26_ComoEnSerie ==
    ParTerminado =>
        /\ \/ BD = EnSerie(EnSerie(en_vuelo.antes, en_vuelo.p[1]), en_vuelo.p[2])
           \/ BD = EnSerie(EnSerie(en_vuelo.antes, en_vuelo.p[2]), en_vuelo.p[1])
        /\ \A t \in TickersOperados :
              PosicionGuardada(t) = SumaCantidad(compras, AbiertasDeTicker(compras, t))

====
